---- MODULE Spec2Model ----
(***************************************************************************)
(* Model of src/app.py: the batch analyser of ultrasonic recordings.       *)
(*                                                                         *)
(*   extract_features  (lines 12-23)                                       *)
(*   analisar_audio    (lines 25-81)                                       *)
(*   processar_audios  (lines 83-112)                                      *)
(*                                                                         *)
(* A decoded signal is represented by its length in samples, its sample    *)
(* rate and the linear RMS envelope librosa.feature.rms returns for it     *)
(* (frame_length=1024, hop_length=256, center=True: the signal is padded   *)
(* with 512 zeros on both sides before framing).  RMS values are integers  *)
(* in a fixed-point unit; mean, standard deviation and the threshold       *)
(* comparison are evaluated exactly (no floating-point rounding).          *)
(* The sensitivity k is held in units of 1/KDen.                           *)
(* File names are tuples of characters so that os.path.splitext is         *)
(* computed, not assumed.                                                  *)
(***************************************************************************)
EXTENDS Integers, Sequences, FiniteSets, Bags, TLC

(* ---------------------------- bounds ---------------------------------- *)
MaxFiles  == 3      \* longest batch in Spec
MaxBlocks == 3      \* longest signal in SpecAnalise: MaxBlocks hops + remainder
MaxRms    == 2      \* largest RMS value of a frame (fixed-point units)
KMax      == 4      \* largest sensitivity, in units of 1/KDen
MaxCent   == 2      \* largest spectral centroid of an excerpt (Hz)

(* ------------------------ program constants --------------------------- *)
FrameLength == 1024   \* frame_length / n_fft of the envelope, excerpt length
HopLength   == 256    \* hop_length of the envelope, excerpt stride
MinExcerpt  == 128    \* extract_features refuses shorter excerpts
KDen        == 2      \* the slider moves k in steps of 1/2

(* remainders L mod HopLength that are tried: both sides of MinExcerpt     *)
Rems == {0, 1, MinExcerpt - 1, MinExcerpt, HopLength - 1}

Ks == 0..KMax

SampleRates == {44100}

None == [none |-> TRUE]

(* ----------------------------- inputs --------------------------------- *)
\* uploaded file names (UploadedFile.name), as tuples of characters
Names == { <<"a", ".", "w">>, <<"a", ".", "f">>, <<"b", ".", "w">> }

\* frames of an uncentred framing: only whole frames inside the signal
NumFramesUncentred(n) ==
    IF n < FrameLength THEN 0 ELSE 1 + ((n - FrameLength) \div HopLength)

\* number of frames librosa.feature.rms yields for a signal of n samples:
\* center=True pads FrameLength \div 2 zeros on both sides, then every whole
\* frame at stride HopLength is taken
NumFrames(n) ==
    1 + ((n + 2 * (FrameLength \div 2) - FrameLength) \div HopLength)

\* what librosa.load makes of the bytes of a file
Undecodable == [dec |-> FALSE]

Signal(n, fs, e) == [dec |-> TRUE, len |-> n, fs |-> fs, rms |-> e]

\* every signal of the bounded family
Signals ==
    { Signal(b * HopLength + r, fs, e) :
        b \in 0..MaxBlocks, r \in Rems, fs \in SampleRates,
        e \in UNION { [1..m -> 0..MaxRms] : m \in 0..(MaxBlocks + 1) } }

WellFormed(s) ==
    /\ Len(s.rms) = NumFrames(s.len)
    /\ (s.len = 0 => \A j \in DOMAIN s.rms : s.rms[j] = 0)

RichContents == { s \in Signals : WellFormed(s) } \cup {Undecodable}

\* the contents the batches of Spec are made of
Contents ==
    { Undecodable,
      Signal(0, 44100, <<0>>),
      Signal(300, 44100, <<1, 2>>),
      Signal(1124, 44100, <<0, 0, 0, 0, 2>>),
      Signal(1408, 44100, <<0, 0, 2, 0, 0, 2>>) }

File(nm, c) == [name |-> nm, content |-> c]

(* ----------------------------- helpers -------------------------------- *)
RECURSIVE SumSeq(_)
SumSeq(s) == IF s = << >> THEN 0 ELSE Head(s) + SumSeq(Tail(s))

Min(a, b) == IF a < b THEN a ELSE b
Max(a, b) == IF a > b THEN a ELSE b

\* round(num/den, 2) in hundredths, ties to even (Python's round on the
\* exact quotient)
Round2(num, den) ==
    LET q == (100 * num) \div den
        r == (100 * num) % den
    IN  IF 2 * r > den THEN q + 1
        ELSE IF 2 * r = den THEN q + (q % 2)
        ELSE q

\* os.path.splitext(name)[0]: cut at the last dot, unless that dot is
\* preceded by dots only (or by nothing)
Splitext0(nm) ==
    LET dots == { p \in 1..Len(nm) : nm[p] = "." }
        last == IF dots = {} THEN 0
                ELSE CHOOSE p \in dots : \A q \in dots : q <= p
    IN  IF last = 0 \/ (\A q \in 1..(last - 1) : nm[q] = ".")
        THEN nm
        ELSE SubSeq(nm, 1, last - 1)

(* ------------------------- analisar_audio ----------------------------- *)
SumSq(s) == SumSeq([j \in DOMAIN s |-> s[j] * s[j]])

\* rms[idx] >= np.mean(rms) + k*np.std(rms): the comparison made non-strict
ExceedsOrEquals(rms, idx, kh) ==
    LET n == Len(rms)
        S == SumSeq(rms)
        D == n * SumSq(rms) - S * S
        A == KDen * (n * rms[idx + 1] - S)
    IN  IF kh >= 0
        THEN A >= 0 /\ A * A >= kh * kh * D
        ELSE A >= 0 \/ A * A <= kh * kh * D

\* rms[idx] > np.mean(rms) - k*np.std(rms): the deviation term subtracted
ExceedsBelow(rms, idx, kh) ==
    LET n == Len(rms)
        S == SumSeq(rms)
        D == n * SumSq(rms) - S * S
        A == KDen * (n * rms[idx + 1] - S)
    IN  IF kh <= 0
        THEN A > 0 /\ A * A > kh * kh * D
        ELSE A > 0 \/ (A = 0 /\ D > 0) \/ (A < 0 /\ A * A < kh * kh * D)

\* rms[idx] > np.mean(rms) + k*np.std(rms), k = kh/KDen, idx counted from 0.
\* With n = len(rms), S = sum, Q = sum of squares: n*mean = S and
\* n*std = sqrt(n*Q - S*S), so the test is  KDen*(n*rms[idx] - S) > kh*sqrt(D).
Exceeds(rms, idx, kh) ==
    LET n == Len(rms)
        S == SumSeq(rms)
        D == n * SumSq(rms) - S * S
        A == KDen * (n * rms[idx + 1] - S)
    IN  IF kh >= 0
        THEN A > 0 /\ A * A > kh * kh * D
        ELSE A > 0 \/ (A = 0 /\ D > 0) \/ (A < 0 /\ A * A < kh * kh * D)

\* np.where(rms > threshold)[0]: the frame indices, from 0, in ascending order
Eventos(rms, kh) ==
    SelectSeq([j \in 1..Len(rms) |-> j - 1], LAMBDA idx : Exceeds(rms, idx, kh))

\* len(sig[start:end]) for a signal of n samples (Python slicing clips)
SliceLen(n, start, end) == Max(0, Min(n, end) - Min(n, start))

\* extract_features that also refuses an excerpt of exactly MinExcerpt samples
extract_features_le(xlen, c) ==
    IF xlen <= MinExcerpt THEN None ELSE [spectral_centroid |-> c]

\* extract_features(x, fs): None for an excerpt under MinExcerpt samples,
\* otherwise the feature record; c is the spectral centroid librosa finds
\* in the excerpt (rms and mfccs are not read by the caller)
extract_features(xlen, c) ==
    IF xlen < MinExcerpt THEN None ELSE [spectral_centroid |-> c]

\* a loop over every frame of the envelope instead of over the events
EventLoopAllFrames(eventos, n) == [j \in 1..n |-> j - 1]

\* the indices the loop of line 61 visits
EventLoop(eventos, n) == eventos

\* the features the loop of lines 61-67 collects; cs[j] is the centroid of
\* the excerpt of the j-th visited index.  Each entry keeps its idx.
Resultados(sig, visited, cs) ==
    LET f(j) == extract_features(
                    SliceLen(sig.len, visited[j] * HopLength,
                             visited[j] * HopLength + FrameLength), cs[j])
        kept == SelectSeq([j \in 1..Len(visited) |-> j],
                          LAMBDA j : f(j) # None)
    IN  [j \in 1..Len(kept) |->
            [idx |-> visited[kept[j]],
             spectral_centroid |-> f(kept[j]).spectral_centroid]]

\* an empty signal that is analysed like any other
AnaliseRaisesNever(sig) == FALSE

\* analisar_audio raises before anything is saved or returned: on an empty
\* signal librosa refuses to frame it (waveshow, line 38)
AnaliseRaises(sig) == sig.len = 0

\* f"{nome_arquivo}_analise.png"
ImgName(nome) == nome \o <<"_analise.png">>

\* the dictionary analisar_audio returns (lines 72-81); the two dB fields
\* are kept as terms over the envelope, durations and centroids in 1/100
Summary(nome, sig, eventos, resultados) ==
    [arquivo |-> nome,
     fs |-> sig.fs,
     duracao_s |-> Round2(sig.len, sig.fs),
     nivel_medio_db |-> <<"round2_mean_db", sig.rms>>,
     pico_db |-> <<"round2_max_db", sig.rms>>,
     eventos |-> Len(eventos),
     eventos_validos |-> Len(resultados),
     centroide_medio_hz |->
        IF resultados # << >>
        THEN Round2(SumSeq([j \in DOMAIN resultados |->
                              resultados[j].spectral_centroid]),
                    Len(resultados))
        ELSE 0]

\* everything one successful call of analisar_audio computes
Analise(nome, sig, kh, cs) ==
    LET ev  == Eventos(sig.rms, kh)
        res == Resultados(sig, EventLoop(ev, Len(sig.rms)), cs)
    IN  [sig |-> sig,
         k |-> kh,
         rms |-> sig.rms,
         eventos |-> ev,
         resultados |-> res,
         saida_img |-> ImgName(nome),
         r |-> Summary(nome, sig, ev, res)]

(* ------------------------ processar_audios ---------------------------- *)
VARIABLES
    uploaded_files,   \* the batch: sequence of [name, content]
    k,                \* sensitivity, in units of 1/KDen
    pc,               \* "start", "loop", "zip", "exit", "done", "raised"
    pos,              \* position in uploaded_files of the next file
    tmpdir,           \* TRUE while the temporary directory exists
    pasta_saida,      \* files in <tmpdir>/resultados: file name -> data
    resumo,           \* the list of summaries collected so far
    zip_buffer,       \* bag of [arcname, data] written to the archive
    erro,             \* the exception that left processar_audios, or None
    analise           \* what the last call of analisar_audio computed, or None

vars == <<uploaded_files, k, pc, pos, tmpdir, pasta_saida, resumo,
          zip_buffer, erro, analise>>

Fieldnames == <<"arquivo", "fs", "duracao_s", "nivel_medio_db", "pico_db",
                "eventos", "eventos_validos", "centroide_medio_hz">>

CsvName == <<"resumo.csv">>

\* csv.DictWriter: the header, then one row per summary, fields in order
CsvData(res) ==
    [kind |-> "csv",
     rows |-> <<Fieldnames>> \o
              [j \in 1..Len(res) |->
                  [c \in 1..Len(Fieldnames) |-> res[j][Fieldnames[c]]]]]

\* plt.savefig: the three panels are drawn from the signal and k
PngData(sig, kh) == [kind |-> "png", sig |-> sig, k |-> kh]

\* a write that leaves an existing file of the same name as it is
WriteFileKeepFirst(dir, nm, data) == dir @@ (nm :> data)

\* writing a file into the directory replaces a file of the same name
WriteFile(dir, nm, data) == (nm :> data) @@ dir

\* the summary put in front of the list
ResumoPrepend(res, r) == <<r>> \o res

\* resumo.append(r)
ResumoAppend(res, r) == Append(res, r)

\* os.walk over the flat directory, zf.write(path, basename(path))
ZipEntries(dir) ==
    SetToBag({ [arcname |-> f, data |-> dir[f]] : f \in DOMAIN dir })

\* a directory that survives an exception
TmpdirAfterRaiseLeak == TRUE

\* TemporaryDirectory.__exit__ removes the directory when an exception
\* leaves the with block
TmpdirAfterRaise == FALSE

Batches(names, contents, maxn) ==
    UNION { [1..n -> { File(nm, c) : nm \in names, c \in contents }] :
            n \in 0..maxn }

InitCommon ==
    /\ pc = "start"
    /\ pos = 1
    /\ tmpdir = FALSE
    /\ pasta_saida = << >>
    /\ resumo = << >>
    /\ zip_buffer = EmptyBag
    /\ erro = None
    /\ analise = None

\* a batch of up to MaxFiles files
Init ==
    /\ uploaded_files \in Batches(Names, Contents, MaxFiles)
    /\ k \in {2, 4}
    /\ InitCommon

\* one file, any signal of the bounded family, any k
InitAnalise ==
    /\ uploaded_files \in Batches({<<"a", ".", "w">>}, RichContents, 1)
    /\ k \in Ks
    /\ InitCommon

\* lines 84-88
Enter ==
    /\ pc = "start"
    /\ pc' = "loop"
    /\ tmpdir' = TRUE
    /\ pasta_saida' = << >>
    /\ resumo' = << >>
    /\ UNCHANGED <<uploaded_files, k, pos, zip_buffer, erro, analise>>

\* an exception leaves the with block: the directory is removed, nothing
\* is returned
Raise(kind) ==
    /\ pc' = "raised"
    /\ erro' = [kind |-> kind, pos |-> pos]
    /\ tmpdir' = TmpdirAfterRaise
    /\ pasta_saida' = IF TmpdirAfterRaise THEN pasta_saida ELSE << >>
    /\ resumo' = << >>
    /\ zip_buffer' = EmptyBag
    /\ UNCHANGED <<uploaded_files, k, pos>>

InLoop == pc = "loop" /\ pos <= Len(uploaded_files)

\* line 90: librosa.load cannot decode the file
LoadFails ==
    /\ InLoop
    /\ ~ uploaded_files[pos].content.dec
    /\ Raise("decode")
    /\ UNCHANGED analise

\* lines 90-92: analisar_audio raises on the decoded signal
AnaliseFails ==
    /\ InLoop
    /\ uploaded_files[pos].content.dec
    /\ AnaliseRaises(uploaded_files[pos].content)
    /\ Raise("analysis")
    /\ UNCHANGED analise

\* lines 90-92, 57: the image cannot be written
SavefigFails ==
    /\ InLoop
    /\ uploaded_files[pos].content.dec
    /\ ~ AnaliseRaises(uploaded_files[pos].content)
    /\ Raise("write")
    /\ UNCHANGED analise

\* lines 89-93: one file loaded, analysed, its image saved, its summary
\* appended
ProcessFile ==
    /\ InLoop
    /\ uploaded_files[pos].content.dec
    /\ ~ AnaliseRaises(uploaded_files[pos].content)
    /\ LET sig  == uploaded_files[pos].content
           nome == Splitext0(uploaded_files[pos].name)
           nvis == Len(EventLoop(Eventos(sig.rms, k), Len(sig.rms)))
       IN  \E cs \in [1..nvis -> 0..MaxCent] :
              LET a == Analise(nome, sig, k, cs)
              IN  /\ analise' = a
                  /\ pasta_saida' =
                        WriteFile(pasta_saida, a.saida_img, PngData(sig, k))
                  /\ resumo' = ResumoAppend(resumo, a.r)
    /\ pos' = pos + 1
    /\ UNCHANGED <<uploaded_files, k, pc, tmpdir, zip_buffer, erro>>

\* lines 95-101
WriteCsv ==
    /\ pc = "loop"
    /\ pos > Len(uploaded_files)
    /\ pasta_saida' = WriteFile(pasta_saida, CsvName, CsvData(resumo))
    /\ pc' = "zip"
    /\ UNCHANGED <<uploaded_files, k, pos, tmpdir, resumo, zip_buffer, erro,
                   analise>>

\* lines 95-101: the report cannot be written
WriteCsvFails ==
    /\ pc = "loop"
    /\ pos > Len(uploaded_files)
    /\ Raise("write")
    /\ UNCHANGED analise

\* lines 104-110
Zip ==
    /\ pc = "zip"
    /\ zip_buffer' = ZipEntries(pasta_saida)
    /\ pc' = "exit"
    /\ UNCHANGED <<uploaded_files, k, pos, tmpdir, pasta_saida, resumo, erro,
                   analise>>

\* lines 104-110: the archive cannot be written
ZipFails ==
    /\ pc = "zip"
    /\ Raise("write")
    /\ UNCHANGED analise

\* lines 110-112: the with block is left, the archive is returned
Exit ==
    /\ pc = "exit"
    /\ tmpdir' = FALSE
    /\ pasta_saida' = << >>
    /\ pc' = "done"
    /\ UNCHANGED <<uploaded_files, k, pos, resumo, zip_buffer, erro, analise>>

Next ==
    \/ Enter
    \/ LoadFails
    \/ AnaliseFails
    \/ SavefigFails
    \/ ProcessFile
    \/ WriteCsv
    \/ WriteCsvFails
    \/ Zip
    \/ ZipFails
    \/ Exit

Spec == Init /\ [][Next]_vars

SpecAnalise == InitAnalise /\ [][Next]_vars

(* ============================ properties ============================== *)
\* file j cannot be loaded or cannot be analysed
Bad(j) ==
    \/ ~ uploaded_files[j].content.dec
    \/ uploaded_files[j].content.len = 0

Base(j) == Splitext0(uploaded_files[j].name)

Analysed == analise # None

ArchiveNames == { e.arcname : e \in BagToSet(zip_buffer) }

\* the rows of resumo.csv in the archive (<< >> when it has none)
ArchiveRows ==
    IF \E e \in BagToSet(zip_buffer) : e.arcname = CsvName
    THEN (CHOOSE e \in BagToSet(zip_buffer) : e.arcname = CsvName).data.rows
    ELSE << >>

(* C1: when loading or analysing some file fails, the batch still        *)
(* completes: it returns an archive that holds the image of every other   *)
(* file and a report with one row per other file and none for the failed  *)
(* ones.                                                                  *)
C1_PerFileIsolation ==
    (/\ pc \in {"done", "raised"}
     /\ erro = None \/ erro.kind \in {"decode", "analysis"}
     /\ \E i \in DOMAIN uploaded_files : Bad(i))
    => /\ pc = "done"
       /\ \A j \in DOMAIN uploaded_files :
            ~ Bad(j) => ImgName(Base(j)) \in ArchiveNames
       /\ Len(ArchiveRows) =
            1 + Cardinality({ j \in DOMAIN uploaded_files : ~ Bad(j) })

(* C2: an input that cannot be decoded or decodes to zero samples ends    *)
(* the call in an error raised to the caller; it never gets a summary in  *)
(* the report, and no image drawn from it is in the directory or archive. *)
C2_State ==
    /\ \A j \in DOMAIN uploaded_files :
          Bad(j) => /\ pos <= j
                    /\ Len(resumo) < j
                    /\ pc \notin {"zip", "exit", "done"}
    /\ \A f \in DOMAIN pasta_saida :
          pasta_saida[f].kind = "png" => pasta_saida[f].sig.len > 0
    /\ \A e \in BagToSet(zip_buffer) :
          e.data.kind = "png" => e.data.sig.len > 0
    /\ Analysed => analise.sig.len > 0

C2_Step ==
    (InLoop /\ Bad(pos))
    => /\ pc' = "raised"
       /\ erro' # None
       /\ erro'.pos = pos
       /\ erro'.kind \in {"decode", "analysis"}
       /\ resumo' = << >>
       /\ pasta_saida' = << >>

C3_Original ==
    Analysed =>
        /\ Len(analise.rms) = NumFramesUncentred(analise.sig.len)
        /\ (analise.sig.len < FrameLength =>
                Len(analise.rms) = 0 /\ analise.r.eventos = 0)

(* C3 amended: the envelope of a signal of L > 0 samples has              *)
(* 1 + floor(L/256) frames (frames are centred, the signal being padded   *)
(* with 512 zeros on both sides), so 1 to 4 frames for 0 < L < 1024; and  *)
(* eventos = 0 whenever L < 256.                                          *)
C3_Amended ==
    Analysed =>
        /\ Len(analise.rms) = 1 + (analise.sig.len \div 256)
        /\ (analise.sig.len < 1024 => Len(analise.rms) \in 1..4)
        /\ (analise.sig.len < 256 => analise.r.eventos = 0)

C3_Witness ==
    /\ Analysed
    /\ analise.sig.len > 0
    /\ analise.sig.len < FrameLength
    /\ Len(analise.rms) = 4
    /\ analise.r.eventos > 0

(* C4: every summary, the last one returned and each one in the report,   *)
(* has eventos_validos <= eventos.                                        *)
C4_ValidosLeEventos ==
    /\ Analysed => analise.r.eventos_validos <= analise.r.eventos
    /\ \A j \in DOMAIN resumo : resumo[j].eventos_validos <= resumo[j].eventos

C4_Witness ==
    /\ Len(resumo) >= 2
    /\ resumo[1].eventos_validos < resumo[1].eventos
    /\ resumo[2].eventos_validos = resumo[2].eventos
    /\ resumo[2].eventos > 0

(* C5: files are taken one at a time in input order; at every point the   *)
(* report is the list of the summaries of the files processed so far, in  *)
(* input order, and the rows of the exported CSV follow the same order,   *)
(* one per analysed file.                                                 *)
SummaryOf(j) ==
    /\ resumo[j].arquivo = Base(j)
    /\ resumo[j].fs = uploaded_files[j].content.fs
    /\ resumo[j].nivel_medio_db[2] = uploaded_files[j].content.rms
    /\ resumo[j].eventos = Len(Eventos(uploaded_files[j].content.rms, k))

C5_State ==
    pc \in {"loop", "zip", "exit", "done"} =>
        /\ Len(resumo) = pos - 1
        /\ \A j \in DOMAIN resumo : SummaryOf(j)
        /\ CsvName \in DOMAIN pasta_saida =>
              pasta_saida[CsvName] = CsvData(resumo)
        /\ pc \in {"exit", "done"} =>
              /\ Len(ArchiveRows) = 1 + Len(uploaded_files)
              /\ \A j \in DOMAIN uploaded_files :
                    /\ ArchiveRows[j + 1][1] = Base(j)
                    /\ ArchiveRows[j + 1][6] = resumo[j].eventos

C5_Step ==
    /\ pos' \in {pos, pos + 1}
    /\ (pos' = pos + 1 =>
            /\ Len(resumo') = Len(resumo) + 1
            /\ SubSeq(resumo', 1, Len(resumo)) = resumo)

C5_InputOrder == [] C5_State /\ [][C5_Step]_vars

C5_Witness ==
    /\ pc = "done"
    /\ Len(resumo) = 3
    /\ resumo[1].arquivo # resumo[2].arquivo
    /\ resumo[2].eventos # resumo[3].eventos

(* C6: for one envelope, a larger k never gives more events: the count    *)
(* reported for k is at least the count under any larger k and at most    *)
(* the count under any smaller k.                                         *)
C6_MonotoneInK ==
    Analysed =>
        \A k2 \in Ks :
            /\ k <= k2 => Len(Eventos(analise.rms, k2)) <= analise.r.eventos
            /\ k2 <= k => Len(Eventos(analise.rms, k2)) >= analise.r.eventos

C6_Witness ==
    /\ Analysed
    /\ analise.r.eventos > 0
    /\ \E k2 \in Ks :
          /\ k < k2
          /\ Len(Eventos(analise.rms, k2)) < analise.r.eventos
          /\ Len(Eventos(analise.rms, k2)) > 0

(* C7: when processar_audios has returned or raised, the temporary        *)
(* directory is gone; on the normal path it is removed only once the      *)
(* archive holds every file of the directory, the report included.        *)
C7_State ==
    pc \in {"done", "raised"} => ~ tmpdir /\ pasta_saida = << >>

C7_Step ==
    (tmpdir /\ ~ tmpdir' /\ pc' = "done")
    => /\ CsvName \in DOMAIN pasta_saida
       /\ zip_buffer = ZipEntries(pasta_saida)
       /\ zip_buffer' = zip_buffer

C7_TmpdirReleased == [] C7_State /\ [][C7_Step]_vars

C7_Witness ==
    /\ pc = "raised"
    /\ erro.kind = "write"
    /\ erro.pos = 3
    /\ ~ tmpdir

(* C8: idx is an event iff rms[idx] > mean + k*std, strictly: events lie  *)
(* above the mean, frames at least as loud as an event are events, an     *)
(* envelope of equal frames has eventos = eventos_validos =               *)
(* centroide_medio_hz = 0, and the indices ascend and stay below the      *)
(* envelope length.                                                       *)
StrictlyAbove(rms, idx, kh) ==
    LET n == Len(rms)
        d == n * rms[idx + 1] - SumSeq(rms)
        v == n * SumSq(rms) - SumSeq(rms) * SumSeq(rms)
    IN  d > 0 /\ 4 * d * d > kh * kh * v

C8_StrictThreshold ==
    Analysed =>
        LET rms == analise.rms
            ev  == analise.eventos
            evs == { ev[j] : j \in DOMAIN ev }
        IN  /\ \A idx \in 0..(Len(rms) - 1) :
                  idx \in evs <=> StrictlyAbove(rms, idx, k)
            /\ \A j \in DOMAIN ev : ev[j] \in 0..(Len(rms) - 1)
            /\ \A j \in 1..(Len(ev) - 1) : ev[j] < ev[j + 1]
            /\ \A a \in evs : \A b \in 0..(Len(rms) - 1) :
                  rms[b + 1] >= rms[a + 1] => b \in evs
            /\ (\A a, b \in DOMAIN rms : rms[a] = rms[b]) =>
                  /\ analise.r.eventos = 0
                  /\ analise.r.eventos_validos = 0
                  /\ analise.r.centroide_medio_hz = 0

C8_Witness ==
    /\ Analysed
    /\ Len(analise.rms) >= 3
    /\ \A a \in DOMAIN analise.rms : analise.rms[a] = 1
    /\ k = 0
    /\ analise.r.eventos = 0

(* C9: the archive returned has a flat namespace with exactly one         *)
(* resumo.csv and one <base>_analise.png per input base name; resumo.csv  *)
(* has the header and one row per file; of two inputs with the same base  *)
(* name the image of the later one is the one archived.                   *)
LastWithBase(j) ==
    CHOOSE m \in DOMAIN uploaded_files :
        /\ Base(m) = Base(j)
        /\ \A q \in DOMAIN uploaded_files : Base(q) = Base(j) => q <= m

C9_Archive ==
    pc = "done" =>
        /\ ArchiveNames =
              {CsvName} \cup { ImgName(Base(j)) : j \in DOMAIN uploaded_files }
        /\ BagCardinality(zip_buffer) = Cardinality(ArchiveNames)
        /\ Len(ArchiveRows) = 1 + Len(uploaded_files)
        /\ ArchiveRows[1] = Fieldnames
        /\ \A j \in DOMAIN uploaded_files :
              \A e \in BagToSet(zip_buffer) :
                  e.arcname = ImgName(Base(j)) =>
                      e.data = PngData(uploaded_files[LastWithBase(j)].content, k)

C9_Witness ==
    /\ pc = "done"
    /\ Len(uploaded_files) = 3
    /\ Base(1) = Base(2)
    /\ Base(3) # Base(1)
    /\ uploaded_files[1].name # uploaded_files[2].name
    /\ uploaded_files[1].content # uploaded_files[2].content

(* C10: an event idx is counted in eventos_validos iff idx*256 + 128 <= L;*)
(* an event with a shorter excerpt is skipped without an error and still  *)
(* counts in eventos.                                                     *)
C10_ShortWindowSkip ==
    Analysed =>
        LET L     == analise.sig.len
            ev    == analise.eventos
            evs   == { ev[j] : j \in DOMAIN ev }
            res   == analise.resultados
            valid == { res[j].idx : j \in DOMAIN res }
        IN  /\ valid = { idx \in evs : idx * 256 + 128 <= L }
            /\ analise.r.eventos_validos = Cardinality(valid)
            /\ analise.r.eventos = Cardinality(evs)
            /\ pc \in {"loop", "zip", "exit", "done"} =>
                  resumo[pos - 1] = analise.r
            /\ (InLoop /\ ~ Bad(pos)) => ENABLED ProcessFile

C10_Witness ==
    /\ Analysed
    /\ pc = "done"
    /\ analise.r.eventos = 2
    /\ analise.r.eventos_validos = 1
    /\ \E j \in DOMAIN analise.eventos :
          analise.eventos[j] * 256 + 127 = analise.sig.len

====
